---- MODULE Spec2Model ----
(***************************************************************************)
(* The error model of serde-hjson (src/hjson/src/error.rs): the closed     *)
(* taxonomy ErrorCode, the unified Error, the conversions into it, and the *)
(* description / cause / Display / Debug renderings.                       *)
(*                                                                         *)
(* A Rust string (String, &str) is modelled as a sequence of chunks; a     *)
(* chunk is one character, or a run of printable characters holding no     *)
(* double quote and no backslash.  What a formatter has written is the     *)
(* TLA+ string obtained by concatenating the chunks written to it.         *)
(***************************************************************************)
EXTENDS Naturals, Sequences, FiniteSets, TLC

\* Longest custom message drawn, in characters.
MaxLen == 3
\* Largest line and column drawn.
MaxPos == 12

\* The character U+0060 (grave accent), which a TLA+ string literal cannot
\* hold; it is written as this chunk wherever the source's literals hold it.
Grave == "{U+0060}"

\* The characters custom messages are drawn from: a plain one, and the two
\* that a debug rendering of a string escapes.
Chars == {"a", "\"", "\\"}

RECURSIVE SeqsUpTo(_, _)
SeqsUpTo(S, n) ==
    IF n = 0 THEN {<<>>}
    ELSE LET shorter == SeqsUpTo(S, n - 1)
         IN  shorter \cup {Append(s, x) : s \in {t \in shorter : Len(t) = n - 1}, x \in S}

\* What has been written to a formatter after writing the chunks of s in order.
RECURSIVE Flat(_)
Flat(s) == IF s = <<>> THEN "" ELSE Head(s) \o Flat(Tail(s))

FixedTags ==
    { "EOFWhileParsingList", "EOFWhileParsingObject", "EOFWhileParsingString",
      "EOFWhileParsingValue", "ExpectedColon", "ExpectedListCommaOrEnd",
      "ExpectedObjectCommaOrEnd", "ExpectedSomeIdent", "ExpectedSomeValue",
      "InvalidEscape", "InvalidNumber", "InvalidUnicodeCodePoint",
      "KeyMustBeAString", "LoneLeadingSurrogateInHexEscape",
      "TrailingCharacters", "UnexpectedEndOfHexEscape", "PunctuatorInQlString" }

\* Message texts handed to the custom constructors and to ErrorCode::Custom:
\* every text over Chars up to MaxLen, and texts that coincide with a fixed
\* message, bare and as its debug rendering shows it.
Msgs ==
    SeqsUpTo(Chars, MaxLen)
      \cup { <<"expected ", Grave, ":", Grave>>, <<"\"", "expected value", "\"">> }

\* enum ErrorCode: Custom(String) and the seventeen fixed tags.
ErrorCode ==
    [msg : Msgs, tag : {"Custom"}] \cup [tag : FixedTags]

Positions == 0 .. MaxPos

(***************************************************************************)
(* The foreign failures.  Each is a record of the fields the standard      *)
(* library keeps in it.                                                    *)
(***************************************************************************)
\* std::io::Error: an OS error code, a bare kind, or a kind with a boxed error.
IoErrors ==
    { [code |-> 2, repr |-> "Os"],
      [kind |-> "UnexpectedEof", repr |-> "Simple"],
      [error |-> <<"a", "\"">>, kind |-> "Other", repr |-> "Custom"] }

\* std::string::FromUtf8Error: the rejected bytes and the Utf8Error
\* (valid_up_to, and error_len, 0 standing for None).
Utf8Errors ==
    { [bytes |-> <<255>>, error_len |-> 1, valid_up_to |-> 0],
      [bytes |-> <<97, 226, 130>>, error_len |-> 0, valid_up_to |-> 1] }

\* std::num::ParseIntError: its IntErrorKind.
ParseIntErrors ==
    [kind : {"Empty", "InvalidDigit", "PosOverflow", "NegOverflow"}]

\* <str as Display>::fmt with the default format spec: the characters as they are.
str_Display(s) == Flat(s)

\* char::escape_debug as <str as Debug>::fmt applies it to one chunk.
escape_debug(ch) ==
    CASE ch = "\"" -> "\\\""
      [] ch = "\\" -> "\\\\"
      [] ch = "\n" -> "\\n"
      [] OTHER     -> ch

\* <str as Debug>::fmt: a double quote, every character escaped, a double quote.
str_Debug(s) ==
    "\"" \o Flat([i \in 1 .. Len(s) |-> escape_debug(s[i])]) \o "\""

Digit(d) ==
    CASE d = 0 -> "0" [] d = 1 -> "1" [] d = 2 -> "2" [] d = 3 -> "3"
      [] d = 4 -> "4" [] d = 5 -> "5" [] d = 6 -> "6" [] d = 7 -> "7"
      [] d = 8 -> "8" [] d = 9 -> "9"

\* <usize as Display>::fmt: the decimal digits, most significant first.
RECURSIVE usize_Display(_)
usize_Display(n) ==
    IF n < 10 THEN Digit(n) ELSE usize_Display(n \div 10) \o Digit(n % 10)

\* ToString::to_string of a message text: a new String holding the
\* characters its Display writes.
to_string(msg) == [i \in 1 .. Len(msg) |-> msg[i]]

\* io::ErrorKind of an OS error code (decode_error_kind), and the kind's text.
io_kind(e) ==
    IF e.repr = "Os" THEN (IF e.code = 2 THEN "NotFound" ELSE "Other") ELSE e.kind

io_kind_str(k) ==
    CASE k = "NotFound"      -> "entity not found"
      [] k = "UnexpectedEof" -> "unexpected end of file"
      [] OTHER               -> "other error"

\* <io::Error as Error>::description
io_description(e) ==
    IF e.repr = "Custom" THEN Flat(e.error) ELSE io_kind_str(io_kind(e))

\* <io::Error as Display>::fmt
io_Display(e) ==
    CASE e.repr = "Os"     -> "No such file or directory (os error "
                                \o usize_Display(e.code) \o ")"
      [] e.repr = "Simple" -> io_kind_str(e.kind)
      [] e.repr = "Custom" -> Flat(e.error)

\* <FromUtf8Error as Error>::description
utf8_description(e) == "invalid utf-8"

\* <FromUtf8Error as Display>::fmt, which is that of its Utf8Error
utf8_Display(e) ==
    IF e.error_len # 0
    THEN "invalid utf-8 sequence of " \o usize_Display(e.error_len)
           \o " bytes from index " \o usize_Display(e.valid_up_to)
    ELSE "incomplete utf-8 byte sequence from index " \o usize_Display(e.valid_up_to)

\* <ParseIntError as Error>::description
parse_int_description(e) ==
    CASE e.kind = "Empty"        -> "cannot parse integer from empty string"
      [] e.kind = "InvalidDigit" -> "invalid digit found in string"
      [] e.kind = "PosOverflow"  -> "number too large to fit in target type"
      [] e.kind = "NegOverflow"  -> "number too small to fit in target type"

\* <ParseIntError as Display>::fmt
parse_int_Display(e) == parse_int_description(e)

(***************************************************************************)
(* error.rs                                                                *)
(***************************************************************************)
\* Error::Syntax(ErrorCode, usize, usize)
Syntax(code, line, col) ==
    [code |-> code, col |-> col, line |-> line, shape |-> "Syntax"]

\* The string literal of each fixed arm of fmt::Debug for ErrorCode.
literal(tag) ==
    CASE tag = "EOFWhileParsingList" -> <<"EOF while parsing a list">>
      [] tag = "EOFWhileParsingObject" -> <<"EOF while parsing an object">>
      [] tag = "EOFWhileParsingString" -> <<"EOF while parsing a string">>
      [] tag = "EOFWhileParsingValue" -> <<"EOF while parsing a value">>
      [] tag = "ExpectedColon" -> <<"expected ", Grave, ":", Grave>>
      [] tag = "ExpectedListCommaOrEnd" ->
            <<"expected ", Grave, ",", Grave, " or ", Grave, "]", Grave>>
      [] tag = "ExpectedObjectCommaOrEnd" ->
            <<"expected ", Grave, ",", Grave, " or ", Grave, "}", Grave>>
      [] tag = "ExpectedSomeIdent" -> <<"expected ident">>
      [] tag = "ExpectedSomeValue" -> <<"expected value">>
      [] tag = "InvalidEscape" -> <<"invalid escape">>
      [] tag = "InvalidNumber" -> <<"invalid number">>
      [] tag = "InvalidUnicodeCodePoint" -> <<"invalid unicode code point">>
      [] tag = "KeyMustBeAString" -> <<"key must be a string">>
      [] tag = "LoneLeadingSurrogateInHexEscape" ->
            <<"lone leading surrogate in hex escape">>
      [] tag = "TrailingCharacters" -> <<"trailing characters">>
      [] tag = "UnexpectedEndOfHexEscape" -> <<"unexpected end of hex escape">>
      [] tag = "PunctuatorInQlString" ->
            <<"found a punctuator character when expecting a quoteless string">>

\* Faulty variant: the fixed arms written through Display.
ErrorCode_fmt_display(self) ==
    IF self.tag = "Custom"
    THEN str_Display(self.msg)
    ELSE str_Display(literal(self.tag))

\* Faulty variant: the Custom arm written through "{:?}".
ErrorCode_fmt_custom_debug(self) ==
    IF self.tag = "Custom"
    THEN str_Debug(self.msg)
    ELSE str_Debug(literal(self.tag))

\* fmt::Debug for ErrorCode.  The Custom arm goes through
\* write!(f, "{}", msg), which is Display.  In the fixed arms the method call
\* .fmt(f) on the literal resolves, inside this impl, to the trait being
\* implemented: Debug::fmt of str.
ErrorCode_fmt(self) ==
    IF self.tag = "Custom"
    THEN str_Display(self.msg)
    ELSE str_Debug(literal(self.tag))

\* Faulty variant: categories compared by what they render to.
ErrorCode_eq_rendered(a, b) == ErrorCode_fmt(a) = ErrorCode_fmt(b)

\* PartialEq for ErrorCode, as derived: the same variant, and equal fields.
ErrorCode_eq(a, b) ==
    /\ a.tag = b.tag
    /\ a.tag = "Custom" => a.msg = b.msg

\* Faulty variant: every wrapped failure described by its Display text.
description_display(self) ==
    CASE self.shape = "Syntax"        -> "syntax error"
      [] self.shape = "Io"            -> io_Display(self.error)
      [] self.shape = "FromUtf8"      -> utf8_Display(self.error)
      [] self.shape = "ParseIntError" -> parse_int_Display(self.error)

\* error::Error::description for Error
description(self) ==
    CASE self.shape = "Syntax"        -> "syntax error"
      [] self.shape = "Io"            -> io_description(self.error)
      [] self.shape = "FromUtf8"      -> utf8_description(self.error)
      [] self.shape = "ParseIntError" -> parse_int_description(self.error)

None == [some |-> FALSE]

Some(type, error) == [error |-> error, some |-> TRUE, type |-> type]

\* Faulty variant: only the I/O failure is exposed as a cause.
cause_io_only(self) ==
    IF self.shape = "Io" THEN Some("io::Error", self.error) ELSE None

\* error::Error::cause for Error: the wrapped failure as a &dyn Error, or None.
cause(self) ==
    CASE self.shape = "Io"            -> Some("io::Error", self.error)
      [] self.shape = "FromUtf8"      -> Some("FromUtf8Error", self.error)
      [] self.shape = "ParseIntError" -> Some("ParseIntError", self.error)
      [] OTHER                        -> None

\* Faulty variant: line and column written in the other order.
Error_fmt_swapped(self) ==
    CASE self.shape = "Syntax" ->
            ErrorCode_fmt(self.code) \o " at line " \o usize_Display(self.col)
              \o " column " \o usize_Display(self.line)
      [] self.shape = "Io"            -> io_Display(self.error)
      [] self.shape = "FromUtf8"      -> utf8_Display(self.error)
      [] self.shape = "ParseIntError" -> parse_int_Display(self.error)

\* Faulty variant: the position written as line:column.
Error_fmt_colon(self) ==
    CASE self.shape = "Syntax" ->
            ErrorCode_fmt(self.code) \o " at line " \o usize_Display(self.line)
              \o ":" \o usize_Display(self.col)
      [] self.shape = "Io"            -> io_Display(self.error)
      [] self.shape = "FromUtf8"      -> utf8_Display(self.error)
      [] self.shape = "ParseIntError" -> parse_int_Display(self.error)

\* Faulty variant: the position suffix written for the wrapped shapes too.
Error_fmt_suffix(self) ==
    LET at == " at line " \o usize_Display(0) \o " column " \o usize_Display(0)
    IN  CASE self.shape = "Syntax" ->
                ErrorCode_fmt(self.code) \o " at line " \o usize_Display(self.line)
                  \o " column " \o usize_Display(self.col)
          [] self.shape = "Io"            -> io_Display(self.error) \o at
          [] self.shape = "FromUtf8"      -> utf8_Display(self.error) \o at
          [] self.shape = "ParseIntError" -> parse_int_Display(self.error) \o at

\* fmt::Display for Error
Error_fmt(self) ==
    CASE self.shape = "Syntax" ->
            ErrorCode_fmt(self.code) \o " at line " \o usize_Display(self.line)
              \o " column " \o usize_Display(self.col)
      [] self.shape = "Io"            -> io_Display(self.error)
      [] self.shape = "FromUtf8"      -> utf8_Display(self.error)
      [] self.shape = "ParseIntError" -> parse_int_Display(self.error)

\* From<io::Error> for Error
from_io(error) == [error |-> error, shape |-> "Io"]

\* Faulty variant: only the Utf8Error is kept, the rejected bytes are dropped.
from_FromUtf8Error_lossy(error) ==
    [error |-> [error EXCEPT !.bytes = <<>>], shape |-> "FromUtf8"]

\* From<FromUtf8Error> for Error
from_FromUtf8Error(error) == [error |-> error, shape |-> "FromUtf8"]

\* From<ParseIntError> for Error
from_ParseIntError(error) == [error |-> error, shape |-> "ParseIntError"]

\* de::Error::custom
de_custom(msg) == Syntax([msg |-> to_string(msg), tag |-> "Custom"], 0, 0)

\* Faulty variant: the generic error placed at the first line and column.
ser_custom_located(msg) == Syntax([msg |-> to_string(msg), tag |-> "Custom"], 1, 1)

\* ser::Error::custom
ser_custom(msg) == Syntax([msg |-> to_string(msg), tag |-> "Custom"], 0, 0)

(***************************************************************************)
(* The state: the error value last constructed, how it was constructed,    *)
(* and what the last inspection of it returned.                            *)
(***************************************************************************)
VARIABLES err, input, out

vars == <<err, input, out>>

NoError == [shape |-> "none"]

NoOut == [op |-> "none"]

Init ==
    /\ err = NoError
    /\ input = [via |-> "none"]
    /\ out = NoOut

\* No value is live: the next failure may be built.
Idle == err = NoError /\ out = NoOut

\* An error value is created once and never mutated.
Construct(via, arg, value) ==
    /\ err' = value
    /\ input' = [arg |-> arg, via |-> via]
    /\ out' = NoOut

\* A detection site builds Error::Syntax(code, line, col).
NewSyntax ==
    /\ Idle
    /\ \E code \in ErrorCode, line \in Positions, col \in Positions :
          Construct("Syntax", <<code, line, col>>, Syntax(code, line, col))

DeCustom ==
    /\ Idle
    /\ \E msg \in Msgs : Construct("de_custom", msg, de_custom(msg))

SerCustom ==
    /\ Idle
    /\ \E msg \in Msgs : Construct("ser_custom", msg, ser_custom(msg))

FromIo ==
    /\ Idle
    /\ \E e \in IoErrors : Construct("from_io", e, from_io(e))

FromUtf8 ==
    /\ Idle
    /\ \E e \in Utf8Errors : Construct("from_utf8", e, from_FromUtf8Error(e))

FromParseInt ==
    /\ Idle
    /\ \E e \in ParseIntErrors : Construct("from_parse_int", e, from_ParseIntError(e))

Inspect(result) ==
    /\ err # NoError
    /\ out' = result
    /\ UNCHANGED <<err, input>>

Description == Inspect([op |-> "description", val |-> description(err)])

Cause == Inspect([op |-> "cause", val |-> cause(err)])

Display == Inspect([op |-> "display", val |-> Error_fmt(err)])

\* The values are destroyed; the next failure builds new ones.
Drop ==
    /\ err # NoError \/ out # NoOut
    /\ err' = NoError
    /\ input' = [via |-> "none"]
    /\ out' = NoOut

\* format!("{:?}", code) on the category of a Syntax error
DebugCode ==
    /\ err.shape = "Syntax"
    /\ Inspect([op |-> "debug", val |-> ErrorCode_fmt(err.code)])

\* lhs == rhs on two categories, before either is put into an error value.
\* The comparison reads nothing but its two operands.
Eq ==
    /\ Idle
    /\ \E lhs \in ErrorCode, rhs \in ErrorCode :
          out' = [lhs |-> lhs, op |-> "eq", rhs |-> rhs, val |-> ErrorCode_eq(lhs, rhs)]
    /\ UNCHANGED <<err, input>>

Next ==
    \/ NewSyntax
    \/ DeCustom
    \/ SerCustom
    \/ FromIo
    \/ FromUtf8
    \/ FromParseInt
    \/ Description
    \/ Cause
    \/ Display
    \/ DebugCode
    \/ Eq
    \/ Drop

Spec == Init /\ [][Next]_vars

(***************************************************************************)
(* The properties.                                                         *)
(***************************************************************************)
\* The fixed message table of the specification (section 6), as text.
TableMessage(tag) ==
    CASE tag = "EOFWhileParsingList" -> "EOF while parsing a list"
      [] tag = "EOFWhileParsingObject" -> "EOF while parsing an object"
      [] tag = "EOFWhileParsingString" -> "EOF while parsing a string"
      [] tag = "EOFWhileParsingValue" -> "EOF while parsing a value"
      [] tag = "ExpectedColon" -> "expected " \o Grave \o ":" \o Grave
      [] tag = "ExpectedListCommaOrEnd" ->
            "expected " \o Grave \o "," \o Grave \o " or " \o Grave \o "]" \o Grave
      [] tag = "ExpectedObjectCommaOrEnd" ->
            "expected " \o Grave \o "," \o Grave \o " or " \o Grave \o "}" \o Grave
      [] tag = "ExpectedSomeIdent" -> "expected ident"
      [] tag = "ExpectedSomeValue" -> "expected value"
      [] tag = "InvalidEscape" -> "invalid escape"
      [] tag = "InvalidNumber" -> "invalid number"
      [] tag = "InvalidUnicodeCodePoint" -> "invalid unicode code point"
      [] tag = "KeyMustBeAString" -> "key must be a string"
      [] tag = "LoneLeadingSurrogateInHexEscape" -> "lone leading surrogate in hex escape"
      [] tag = "TrailingCharacters" -> "trailing characters"
      [] tag = "UnexpectedEndOfHexEscape" -> "unexpected end of hex escape"
      [] tag = "PunctuatorInQlString" ->
            "found a punctuator character when expecting a quoteless string"

\* " at line <line> column <column>", the numbers in decimal.
AtPosition(line, col) == " at line " \o ToString(line) \o " column " \o ToString(col)

ViaCustom == input.via \in {"de_custom", "ser_custom"}

ViaFrom == input.via \in {"from_io", "from_utf8", "from_parse_int"}

\* C1: an error built by de::Error::custom or ser::Error::custom from a
\* message m is Syntax-shaped, its category is Custom carrying exactly m, its
\* line and column are 0, and both entry points give the same value for m.
C1_CustomShape ==
    ViaCustom =>
        /\ err.shape = "Syntax"
        /\ err.code.tag = "Custom"
        /\ err.code.msg = input.arg
        /\ Flat(err.code.msg) = Flat(input.arg)
        /\ err.line = 0
        /\ err.col = 0
        /\ de_custom(input.arg) = ser_custom(input.arg)

C1_Witness ==
    /\ input.via = "ser_custom"
    /\ input.arg = <<"a", "\"">>
    /\ err.shape = "Syntax"
    /\ err.code.msg = <<"a", "\"">>

\* C2: converting a foreign failure e gives the one wrapped shape designated
\* for its kind (I/O -> Io, text-decoding -> FromUtf8, integer-parsing ->
\* ParseIntError), and the cause of the result is present and is e itself,
\* every field as it was.
C2_ConversionKeepsPayload ==
    ViaFrom =>
        /\ input.via = "from_io" => err.shape = "Io"
        /\ input.via = "from_utf8" => err.shape = "FromUtf8"
        /\ input.via = "from_parse_int" => err.shape = "ParseIntError"
        /\ out.op = "cause" => out.val.some /\ out.val.error = input.arg

C2_Witness ==
    /\ input.via = "from_utf8"
    /\ input.arg.bytes = <<97, 226, 130>>
    /\ out.op = "cause"
    /\ out.val.some
    /\ out.val.error.bytes = <<97, 226, 130>>

\* C3: the cause is none for every Syntax-shaped error, whatever its category
\* and position, and present for every Io, FromUtf8 and ParseIntError error:
\* cause is none if and only if the shape is Syntax.
C3_CauseNoneIffSyntax ==
    out.op = "cause" => (out.val = None <=> err.shape = "Syntax")

C3_Witness ==
    /\ out.op = "cause"
    /\ err.shape = "Syntax"
    /\ err.code.tag = "Custom"
    /\ err.line = 0
    /\ err.col = 0
    /\ out.val = None

\* C4, as stated: the rendering of a fixed category is exactly its message
\* in the fixed message table, with nothing added around it.
C4_FixedRendersBareTableText ==
    (out.op = "debug" /\ err.code.tag \in FixedTags) =>
        out.val = TableMessage(err.code.tag)

\* C4, amended: the rendering of a fixed category is its message in the fixed
\* message table enclosed in a pair of double quotes (the debug rendering of
\* the message), whatever line and column the enclosing Syntax error carries.
C4_FixedRendersQuotedTableText ==
    (out.op = "debug" /\ err.code.tag \in FixedTags) =>
        out.val = "\"" \o TableMessage(err.code.tag) \o "\""

C4_Witness ==
    /\ out.op = "debug"
    /\ err.code.tag = "PunctuatorInQlString"
    /\ err.line = 3
    /\ err.col = 12

\* C5: the full diagnostic rendering of a Syntax error with category c, line
\* l and column k is the rendering of c, then " at line ", the decimal l,
\* " column " and the decimal k; ExpectedColon at line 4, column 7 renders
\* with the content expected `:` at line 4 column 7, the category part in the
\* quotes of its debug rendering.
C5_SyntaxDisplayFormat ==
    (out.op = "display" /\ err.shape = "Syntax") =>
        /\ out.val = ErrorCode_fmt(err.code) \o AtPosition(err.line, err.col)
        /\ (err.code.tag = "ExpectedColon" /\ err.line = 4 /\ err.col = 7) =>
              out.val = "\"expected " \o Grave \o ":" \o Grave \o "\" at line 4 column 7"

C5_Witness ==
    /\ out.op = "display"
    /\ err.shape = "Syntax"
    /\ err.code.tag = "ExpectedColon"
    /\ err.line = 4
    /\ err.col = 7

\* C6: rendering the category Custom(m) yields m verbatim: the same
\* characters in the same order, nothing quoted, escaped or added.
C6_CustomRendersVerbatim ==
    (out.op = "debug" /\ err.code.tag = "Custom") =>
        out.val = Flat(err.code.msg)

C6_Witness ==
    /\ out.op = "debug"
    /\ err.code.tag = "Custom"
    /\ err.code.msg = <<"\"", "\\", "a">>

\* C7, as stated: in the full diagnostic string of a Syntax error whose
\* category is Custom(m), the part before " at line <line> column <column>"
\* is m quoted and escaped as a debug rendering of the string m shows it.
C7_CustomDisplayedQuoted ==
    (out.op = "display" /\ err.shape = "Syntax" /\ err.code.tag = "Custom") =>
        out.val = str_Debug(err.code.msg) \o AtPosition(err.line, err.col)

\* C7, amended: in the full diagnostic string of a Syntax error whose
\* category is Custom(m), the part before " at line <line> column <column>"
\* is m verbatim, neither quoted nor escaped.
C7_CustomDisplayedVerbatim ==
    (out.op = "display" /\ err.shape = "Syntax" /\ err.code.tag = "Custom") =>
        out.val = Flat(err.code.msg) \o AtPosition(err.line, err.col)

C7_Witness ==
    /\ out.op = "display"
    /\ err.shape = "Syntax"
    /\ err.code.tag = "Custom"
    /\ err.code.msg = <<"a", "\"">>
    /\ err.line = 2
    /\ err.col = 11

\* C8: the short description is the literal "syntax error" for every
\* Syntax-shaped error, whatever its category, line and column, and for a
\* wrapped error it is the short description of the foreign failure that
\* was wrapped.
C8_Description ==
    out.op = "description" =>
        /\ err.shape = "Syntax" => out.val = "syntax error"
        /\ input.via = "from_io" => out.val = io_description(input.arg)
        /\ input.via = "from_utf8" => out.val = utf8_description(input.arg)
        /\ input.via = "from_parse_int" => out.val = parse_int_description(input.arg)
        /\ err.shape # "Syntax" => ViaFrom

C8_Witness ==
    /\ out.op = "description"
    /\ input.via = "from_utf8"
    /\ err.shape = "FromUtf8"
    /\ out.val = "invalid utf-8"

\* C9: the full diagnostic rendering of an Io, FromUtf8 or ParseIntError
\* error is the diagnostic rendering of the foreign failure that was wrapped,
\* with nothing added, removed or changed.
C9_WrappedDisplayDelegates ==
    (out.op = "display" /\ err.shape # "Syntax") =>
        /\ ViaFrom
        /\ input.via = "from_io" => out.val = io_Display(input.arg)
        /\ input.via = "from_utf8" => out.val = utf8_Display(input.arg)
        /\ input.via = "from_parse_int" => out.val = parse_int_Display(input.arg)

C9_Witness ==
    /\ out.op = "display"
    /\ err.shape = "Io"
    /\ input.arg.repr = "Os"
    /\ out.val = "No such file or directory (os error 2)"

\* C10: two categories compare equal if and only if they have the same tag
\* and, when both are Custom, the same message text; Custom(m) never equals a
\* fixed tag, not even when the two render to the same string.
C10_CategoryEquality ==
    out.op = "eq" =>
        /\ out.val <=>
              /\ out.lhs.tag = out.rhs.tag
              /\ out.lhs.tag = "Custom" => Flat(out.lhs.msg) = Flat(out.rhs.msg)
        /\ (out.lhs.tag = "Custom" /\ out.rhs.tag \in FixedTags) => ~out.val
        /\ (out.lhs.tag \in FixedTags /\ out.rhs.tag = "Custom") => ~out.val

C10_Witness ==
    /\ out.op = "eq"
    /\ out.lhs.tag = "Custom"
    /\ out.rhs.tag = "ExpectedSomeValue"
    /\ ErrorCode_fmt(out.lhs) = ErrorCode_fmt(out.rhs)
    /\ ~out.val

====
